---- MODULE Spec2Model ----
(***************************************************************************)
(* notes_backend: the SQLite persistence layer (src/api/db.py) and the     *)
(* tag validator of the request schemas (src/api/schemas.py).              *)
(*                                                                         *)
(* A string is a sequence of characters; a character is a one-character    *)
(* string, or "U+00C9", "U+00E9", "U+00D4", "U+00F4" for the letters       *)
(* E-acute and O-circumflex in upper and lower case.  The database file is *)
(* the record db (the committed tables); a connection inside a write       *)
(* transaction carries its uncommitted working copy.  committed is a       *)
(* history of the database file, kept by SpecSnap only.                    *)
(***************************************************************************)
EXTENDS Integers, Sequences, FiniteSets, Bags, TLC

VARIABLES db, now, last, procs, lock,
          committed   \* the states of the database file recorded so far

vars == <<db, now, last, procs, lock, committed>>

----------------------------------------------------------------------------
(* Bounds *)

MaxNotes == 2
MaxClock == 2
MaxListed == 2
MaxLimit == 3
MaxOffset == 3

----------------------------------------------------------------------------
(* Strings *)

(* SQLite's LOWER() and LIKE fold the 26 ASCII letters only                 *)
AsciiLower(c) ==
    CASE c = "A" -> "a" [] c = "B" -> "b" [] c = "X" -> "x" [] OTHER -> c

(* Python's str.lower() folds every cased letter                           *)
Lower(c) ==
    CASE c = "U+00C9" -> "U+00E9" [] c = "U+00D4" -> "U+00F4" [] OTHER -> AsciiLower(c)

(* code points; UTF-8 strings compare bytewise in code point order         *)
Code(c) ==
    CASE c = " " -> 32 [] c = "%" -> 37 [] c = "A" -> 65 [] c = "B" -> 66
      [] c = "X" -> 88 [] c = "_" -> 95 [] c = "a" -> 97 [] c = "b" -> 98
      [] c = "c" -> 99 [] c = "x" -> 120 [] c = "y" -> 121
      [] c = "U+00C9" -> 201 [] c = "U+00D4" -> 212 [] c = "U+00E9" -> 233
      [] c = "U+00F4" -> 244 [] OTHER -> 63

lower(s) == [i \in DOMAIN s |-> Lower(s[i])]

LOWER(s) == [i \in DOMAIN s |-> AsciiLower(s[i])]

RECURSIVE lstrip(_)
lstrip(s) == IF s = <<>> THEN s ELSE IF Head(s) = " " THEN lstrip(Tail(s)) ELSE s

RECURSIVE rstrip(_)
rstrip(s) ==
    IF s = <<>> THEN s
    ELSE IF s[Len(s)] = " " THEN rstrip(SubSeq(s, 1, Len(s) - 1)) ELSE s

NoStrip(s) == s

strip(s) == rstrip(lstrip(s))

(* Sort keys are sequences of integers compared lexicographically.         *)
KeyLess(a, b) ==
    \/ \E i \in 1..Len(a) :
          /\ i <= Len(b)
          /\ \A j \in 1..(i - 1) : a[j] = b[j]
          /\ a[i] < b[i]
    \/ /\ Len(a) < Len(b)
       /\ \A j \in 1..Len(a) : a[j] = b[j]

(* key=lambda x: x.lower() *)
LowerKey(s) == [i \in DOMAIN s |-> Code(Lower(s[i]))]

(* ORDER BY LOWER(t.name), under the BINARY collation *)
OrderByLower(s) == [i \in DOMAIN s |-> Code(AsciiLower(s[i]))]

(* Every arrangement of the items of S (records with a key field k) in     *)
(* non-decreasing key order; items with equal keys come in any order.      *)
RECURSIVE SortedSeqs(_)
SortedSeqs(S) ==
    IF S = {} THEN {<<>>}
    ELSE UNION { { <<m>> \o r : r \in SortedSeqs(S \ {m}) } :
                 m \in {x \in S : \A y \in S : ~KeyLess(y.k, x.k)} }

Range(s) == {s[i] : i \in DOMAIN s}

----------------------------------------------------------------------------
(* The tables.  notes and tags are kept in rowid order; note_tags is a bag *)
(* of <<note_id, tag_id>> rows.  seq_notes and seq_tags are the            *)
(* AUTOINCREMENT counters of sqlite_sequence.                              *)

NULL == "NULL"

EmptyDb ==
    [notes |-> <<>>, tags |-> <<>>, note_tags |-> EmptyBag,
     seq_notes |-> 0, seq_tags |-> 0]

NoteIds(d) == {d.notes[i].id : i \in DOMAIN d.notes}
TagIds(d) == {d.tags[i].id : i \in DOMAIN d.tags}
NoteExists(d, id) == id \in NoteIds(d)

(* INSERT INTO notes (title, content, updated_at)                          *)
(*   VALUES (?, ?, CURRENT_TIMESTAMP)                                      *)
SqlInsertNote(d, title, content, t) ==
    LET id == d.seq_notes + 1 IN
    [d EXCEPT !.notes = Append(@, [id |-> id, title |-> title, content |-> content,
                                   is_archived |-> 0, created_at |-> t,
                                   updated_at |-> t]),
              !.seq_notes = id]

(* UPDATE notes SET title, content, is_archived, updated_at WHERE id = ?   *)
SqlUpdateEveryNote(d, id, title, content, is_archived, t) ==
    [d EXCEPT !.notes =
        [i \in DOMAIN @ |->
            [@[i] EXCEPT !.title = title, !.content = content,
                         !.is_archived = IF is_archived THEN 1 ELSE 0,
                         !.updated_at = t]]]

SqlUpdateNote(d, id, title, content, is_archived, t) ==
    [d EXCEPT !.notes =
        [i \in DOMAIN @ |->
            IF @[i].id = id
            THEN [@[i] EXCEPT !.title = title, !.content = content,
                              !.is_archived = IF is_archived THEN 1 ELSE 0,
                              !.updated_at = t]
            ELSE @[i]]]

(* FOREIGN KEY (note_id) REFERENCES notes(id) ON DELETE CASCADE            *)
NoCascade(d, id) == d.note_tags

OnDeleteCascade(d, id) ==
    [r \in {x \in DOMAIN d.note_tags : x[1] # id} |-> d.note_tags[r]]

(* DELETE FROM notes WHERE id = ?   (foreign keys are ON)                  *)
SqlDeleteNote(d, id) ==
    [d EXCEPT !.notes = SelectSeq(@, LAMBDA r : r.id # id),
              !.note_tags = OnDeleteCascade(d, id)]

RowCountIgnored(d, id) == 1

RowCountDeleteNote(d, id) == Cardinality({i \in DOMAIN d.notes : d.notes[i].id = id})

(* INSERT OR IGNORE INTO tags (name) VALUES (?)   (name TEXT UNIQUE)       *)
SqlInsertTag(d, name) ==
    [d EXCEPT !.tags = Append(@, [id |-> d.seq_tags + 1, name |-> name, color |-> NULL]),
              !.seq_tags = @ + 1]

SqlInsertOrIgnoreTag(d, name) ==
    IF \E i \in DOMAIN d.tags : d.tags[i].name = name
    THEN d
    ELSE [d EXCEPT !.tags = Append(@, [id |-> d.seq_tags + 1, name |-> name,
                                       color |-> NULL]),
                   !.seq_tags = @ + 1]

(* DELETE FROM note_tags WHERE note_id = ?                                 *)
DeleteNoteTagsAndTags(d, note_id) ==
    [d EXCEPT !.note_tags = [r \in {x \in DOMAIN @ : x[1] # note_id} |-> @[r]],
              !.tags = SelectSeq(@, LAMBDA t : ~BagIn(<<note_id, t.id>>, d.note_tags))]

SqlDeleteNoteTags(d, note_id) ==
    [d EXCEPT !.note_tags =
        [r \in {x \in DOMAIN @ : x[1] # note_id} |-> @[r]]]

(* INSERT OR IGNORE INTO note_tags (note_id, tag_id) VALUES (?, ?)         *)
(* A foreign key violation is not ignored: the statement fails.            *)
ForeignKeysOff(d, note_id, tag_id) == TRUE

ForeignKeyOk(d, note_id, tag_id) == note_id \in NoteIds(d) /\ tag_id \in TagIds(d)

AppendNoteTag(d, note_id, tag_id) ==
    [d EXCEPT !.note_tags = @ (+) SetToBag({<<note_id, tag_id>>})]

SqlInsertOrIgnoreNoteTag(d, note_id, tag_id) ==
    IF BagIn(<<note_id, tag_id>>, d.note_tags)
    THEN d
    ELSE AppendNoteTag(d, note_id, tag_id)

----------------------------------------------------------------------------
(* Helpers of db.py *)

(* normalized: the trimmed, non-empty names, in input order                *)
Normalized(tag_names) ==
    SelectSeq([i \in DOMAIN tag_names |-> strip(tag_names[i])],
              LAMBDA name : name # <<>>)

(* sorted(set(normalized), key=lambda x: x.lower()): the iteration order   *)
(* of a set of strings is not fixed, so names with equal keys come out in  *)
(* either order.                                                           *)
SortedUnique(normalized) ==
    { [i \in DOMAIN s |-> s[i].v] :
        s \in SortedSeqs({[k |-> LowerKey(n), v |-> n] : n \in Range(normalized)}) }

RECURSIVE InsertTags(_, _)
InsertTags(d, names) ==
    IF names = <<>> THEN d
    ELSE InsertTags(SqlInsertOrIgnoreTag(d, Head(names)), Tail(names))

(* by_name = {r["name"]: r["id"] for r in rows}; later rows overwrite      *)
ByName(d, name) ==
    LET I == {i \in DOMAIN d.tags : d.tags[i].name = name}
        m == CHOOSE i \in I : \A j \in I : j <= i
    IN d.tags[m].id

ResolveIds(d, uniq) ==
    LET found == SelectSeq(uniq, LAMBDA name : \E i \in DOMAIN d.tags : d.tags[i].name = name)
    IN [i \in DOMAIN found |-> ByName(d, found[i])]

(* _upsert_tags: the possible (database, ids) results                      *)
upsert_tags(d, tag_names) ==
    LET normalized == Normalized(tag_names) IN
    IF normalized = <<>> THEN {[d |-> d, ids |-> <<>>]}
    ELSE { LET d2 == InsertTags(d, uniq) IN [d |-> d2, ids |-> ResolveIds(d2, uniq)] :
             uniq \in SortedUnique(normalized) }

(* the association loop of _set_note_tags; ok is FALSE when a statement    *)
(* failed on a foreign key                                                 *)
RECURSIVE InsertNoteTags(_, _, _)
InsertNoteTags(d, note_id, tag_ids) ==
    IF tag_ids = <<>> THEN [ok |-> TRUE, d |-> d]
    ELSE IF ~ForeignKeyOk(d, note_id, Head(tag_ids)) THEN [ok |-> FALSE, d |-> d]
    ELSE InsertNoteTags(SqlInsertOrIgnoreNoteTag(d, note_id, Head(tag_ids)),
                        note_id, Tail(tag_ids))

(* _fetch_note_tags: tags JOIN note_tags WHERE note_id = ?                 *)
(* ORDER BY LOWER(t.name); the possible result lists                       *)
fetch_note_tags(d, note_id) ==
    LET joined ==
          UNION { { [k |-> OrderByLower(d.tags[i].name),
                     v |-> [id |-> d.tags[i].id, name |-> d.tags[i].name,
                            color |-> d.tags[i].color],
                     c |-> j] :
                    j \in 1..CopiesIn(<<note_id, d.tags[i].id>>, d.note_tags) } :
                  i \in DOMAIN d.tags }
    IN { [i \in DOMAIN s |-> s[i].v] : s \in SortedSeqs(joined) }

(* _note_row_to_api: the possible API notes for a notes row                *)
note_row_to_api(d, note_row) ==
    { [id |-> note_row.id, title |-> note_row.title, content |-> note_row.content,
       is_archived |-> (note_row.is_archived # 0),
       created_at |-> note_row.created_at, updated_at |-> note_row.updated_at,
       tags |-> tags] :
      tags \in fetch_note_tags(d, note_row.id) }

(* SELECT * FROM notes WHERE id = ?  followed by fetchone(): <<>> is None  *)
SelectNote(d, id) == SelectSeq(d.notes, LAMBDA r : r.id = id)

(* SELECT id FROM notes WHERE id = ?  followed by fetchone()               *)
AlwaysARow(d, id) == <<[id |-> id]>>

SelectNoteId(d, id) ==
    LET rows == SelectSeq(d.notes, LAMBDA r : r.id = id)
    IN [i \in DOMAIN rows |-> [id |-> rows[i].id]]

Min(a, b) == IF a < b THEN a ELSE b

(* SELECT DISTINCT n.* FROM notes n [JOIN note_tags nt JOIN tags t]        *)
(* [WHERE ...] ORDER BY n.updated_at DESC, n.id DESC LIMIT ? OFFSET ?      *)
(* tag = <<>> stands for both None and "" (`if tag:` is false for both).   *)

(* INNER JOIN note_tags nt ON nt.note_id = n.id INNER JOIN tags t          *)
(* ON t.id = nt.tag_id WHERE LOWER(t.name) = LOWER(?): the number of       *)
(* joined rows of note n; without a tag filter there is no join            *)
JoinedRows(d, n, tag) ==
    IF tag = <<>> THEN 1
    ELSE Cardinality(
           UNION { { <<i, j>> : j \in 1..CopiesIn(<<n.id, d.tags[i].id>>, d.note_tags) } :
                   i \in { i \in DOMAIN d.tags :
                             LOWER(d.tags[i].name) = LOWER(strip(tag)) } })

Distinct(rows) == {[k |-> x.k, v |-> x.v] : x \in rows}

OrderByIdOnly(n) == <<0, 0 - n.id>>

(* ORDER BY n.updated_at DESC, n.id DESC *)
OrderKey(n) == <<0 - n.updated_at, 0 - n.id>>

(* LIMIT ? OFFSET ? with parameters (limit, offset) *)
PageSwapped(rows, limit, offset) ==
    SubSeq(rows, limit + 1, Min(limit + offset, Len(rows)))

Page(rows, limit, offset) ==
    SubSeq(rows, offset + 1, Min(offset + limit, Len(rows)))

SelectNotes(d, tag, include_archived, limit, offset) ==
    LET joined ==
          UNION { { [k |-> OrderKey(d.notes[i]), v |-> d.notes[i], c |-> j] :
                    j \in 1..JoinedRows(d, d.notes[i], tag) } :
                  i \in { i \in DOMAIN d.notes :
                            include_archived \/ d.notes[i].is_archived = 0 } }
        ordered == CHOOSE s \in SortedSeqs(Distinct(joined)) : TRUE
    IN Page([i \in DOMAIN ordered |-> ordered[i].v], limit, offset)

(* x LIKE pattern: % matches any run of characters, _ any one character,  *)
(* an ASCII letter matches in either case, any other character itself     *)
RECURSIVE Like(_, _)
Like(s, pattern) ==
    IF pattern = <<>> THEN s = <<>>
    ELSE IF Head(pattern) = "%"
         THEN Like(s, Tail(pattern)) \/ (s # <<>> /\ Like(Tail(s), pattern))
         ELSE /\ s # <<>>
              /\ Head(pattern) = "_" \/ AsciiLower(Head(pattern)) = AsciiLower(Head(s))
              /\ Like(Tail(s), Tail(pattern))

(* search_notes: the query of list_notes with                              *)
(* (n.title LIKE ? OR n.content LIKE ?) added, like = f"%{q_norm}%"        *)
SearchNotes(d, q_norm, tag, include_archived, limit, offset) ==
    LET like == <<"%">> \o q_norm \o <<"%">>
        joined ==
          UNION { { [k |-> OrderKey(d.notes[i]), v |-> d.notes[i], c |-> j] :
                    j \in 1..JoinedRows(d, d.notes[i], tag) } :
                  i \in { i \in DOMAIN d.notes :
                            /\ Like(d.notes[i].title, like) \/ Like(d.notes[i].content, like)
                            /\ include_archived \/ d.notes[i].is_archived = 0 } }
        ordered == CHOOSE s \in SortedSeqs(Distinct(joined)) : TRUE
    IN Page([i \in DOMAIN ordered |-> ordered[i].v], limit, offset)

(* list_tags: tags LEFT JOIN note_tags GROUP BY t.id                       *)
(* ORDER BY LOWER(t.name); the possible result lists                       *)
ListTagsRows(d) ==
    LET grouped ==
          { [k |-> OrderByLower(d.tags[i].name),
             v |-> [id |-> d.tags[i].id, name |-> d.tags[i].name,
                    color |-> d.tags[i].color,
                    note_count |->
                      LET R == {r \in DOMAIN d.note_tags : r[2] = d.tags[i].id}
                          RECURSIVE Sum(_)
                          Sum(S) == IF S = {} THEN 0
                                    ELSE LET r == CHOOSE x \in S : TRUE
                                         IN d.note_tags[r] + Sum(S \ {r})
                      IN Sum(R)]] :
            i \in DOMAIN d.tags }
    IN { [i \in DOMAIN s |-> s[i].v] : s \in SortedSeqs(grouped) }

----------------------------------------------------------------------------
(* schemas.py: the validator of the tags field of a request *)

ExactKey(name) == name

(* key = name.lower() *)
TagKey(name) == lower(name)

(* the loop of normalize_tags over the rest v of the list *)
RECURSIVE NormalizeFrom(_, _, _)
NormalizeFrom(v, seen_lower, out) ==
    IF v = <<>> THEN out
    ELSE LET name == strip(Head(v)) IN
         IF name = <<>> \/ TagKey(name) \in seen_lower
         THEN NormalizeFrom(Tail(v), seen_lower, out)
         ELSE NormalizeFrom(Tail(v), seen_lower \cup {TagKey(name)}, Append(out, name))

normalize_tags(v) == NormalizeFrom(v, {}, <<>>)

----------------------------------------------------------------------------
(* One call of a store function, statement by statement.  A connection is  *)
(* opened per call (_connect); w holds the working copy of its open write  *)
(* transaction (<<>> when none is open); lock names the connection that    *)
(* holds the database write lock (0: nobody).                              *)

Clients == {1, 2}

NoArgs ==
    [note_id |-> 0, title |-> <<>>, content |-> <<>>, is_archived |-> FALSE,
     tags |-> <<>>, q |-> <<>>, tag |-> <<>>, include_archived |-> FALSE,
     limit |-> 0, offset |-> 0]

Idle ==
    [pc |-> "idle", op |-> "none", a |-> NoArgs, conn |-> FALSE, w |-> <<>>,
     note_id |-> 0, tag_ids |-> <<>>, note_row |-> <<>>, rows |-> <<>>,
     ret |-> <<>>, exc |-> "none"]

(* conn says whether the call has entered `with _connect()`: every         *)
(* store function does so at once but search_notes, which looks at q      *)
(* first; the validator of the request layer never does                    *)
Start(op, a) ==
    [Idle EXCEPT !.op = op, !.a = a,
                 !.conn = (op \notin {"search_notes", "normalize_tags"}),
                 !.pc = CASE op = "create_note" -> "c_insert"
                          [] op = "update_note" -> "u_exists"
                          [] op = "delete_note" -> "d_delete"
                          [] op = "list_notes" -> "l_select"
                          [] op = "list_tags" -> "t_select"
                          [] op = "search_notes" -> "s_strip"
                          [] op = "normalize_tags" -> "n_validate"]

(* what the connection reads: its own uncommitted rows, else the file      *)
View(l, d) == IF l.w = <<>> THEN d ELSE l.w[1]

(* conn.close() in _connect's finally: an open transaction is rolled back  *)
conn_close(d, w) == d

(* sqlite3.connect() with the default isolation level: a write statement  *)
(* opens a transaction, and the file keeps its content d until the commit; *)
(* w is the connection's working copy                                      *)
Autocommit(d, w) == w

FileInTransaction(d, w) == d

Unlock(lk, self) == IF lk = self THEN 0 ELSE lk

Return(l, ret) ==
    [Idle EXCEPT !.pc = "done", !.op = l.op, !.a = l.a, !.conn = l.conn, !.ret = ret]

Raise(l, exc) ==
    [Idle EXCEPT !.pc = "done", !.op = l.op, !.a = l.a, !.conn = l.conn, !.exc = exc]

Raised(l, d, lk, self, exc) ==
    [l |-> Raise(l, exc), db |-> conn_close(d, l.w), lock |-> Unlock(lk, self)]

WritePcs ==
    {"c_insert", "u_exists", "u_update", "set_upsert", "set_delete", "set_insert",
     "select_commit", "to_api", "d_delete", "d_commit"}

(* the statements that open the write transaction wait for the write lock  *)
Blocked(l, lk, self) ==
    l.pc \in {"c_insert", "u_update", "d_delete"} /\ lk # 0 /\ lk # self

Statement(l, d, lk, self, t) ==
    CASE l.pc = "c_insert" ->
           LET w == SqlInsertNote(d, l.a.title, l.a.content, t) IN
           {[l |-> [l EXCEPT !.pc = "set_upsert", !.w = <<w>>, !.note_id = w.seq_notes],
             db |-> FileInTransaction(d, w), lock |-> self]}
      [] l.pc = "u_exists" ->
           IF SelectNoteId(d, l.a.note_id) = <<>>
           THEN {Raised(l, d, lk, self, "KeyError")}
           ELSE {[l |-> [l EXCEPT !.pc = "u_update"], db |-> d, lock |-> lk]}
      [] l.pc = "u_update" ->
           LET w == SqlUpdateNote(d, l.a.note_id, l.a.title, l.a.content,
                                  l.a.is_archived, t) IN
           {[l |-> [l EXCEPT !.pc = "set_upsert", !.w = <<w>>, !.note_id = l.a.note_id],
             db |-> FileInTransaction(d, w), lock |-> self]}
      [] l.pc = "set_upsert" ->
           {[l |-> [l EXCEPT !.pc = "set_delete", !.w = <<o.d>>, !.tag_ids = o.ids],
             db |-> FileInTransaction(d, o.d), lock |-> lk] :
              o \in upsert_tags(View(l, d), l.a.tags)}
      [] l.pc = "set_delete" ->
           LET w == SqlDeleteNoteTags(View(l, d), l.note_id) IN
           {[l |-> [l EXCEPT !.pc = "set_insert", !.w = <<w>>],
             db |-> FileInTransaction(d, w), lock |-> lk]}
      [] l.pc = "set_insert" ->
           LET r == InsertNoteTags(View(l, d), l.note_id, l.tag_ids) IN
           IF r.ok
           THEN {[l |-> [l EXCEPT !.pc = "select_commit", !.w = <<r.d>>, !.tag_ids = <<>>],
                  db |-> FileInTransaction(d, r.d), lock |-> lk]}
           ELSE {Raised(l, d, lk, self, "IntegrityError")}
      [] l.pc = "select_commit" ->
           {[l |-> [l EXCEPT !.pc = "to_api", !.w = <<>>,
                             !.note_row = SelectNote(View(l, d), l.note_id)],
             db |-> View(l, d), lock |-> Unlock(lk, self)]}
      [] l.pc = "to_api" ->
           IF l.note_row = <<>>
           THEN {Raised(l, d, lk, self, "TypeError")}
           ELSE {[l |-> Return(l, <<api>>), db |-> d, lock |-> lk] :
                   api \in note_row_to_api(View(l, d), l.note_row[1])}
      [] l.pc = "d_delete" ->
           IF RowCountDeleteNote(d, l.a.note_id) = 0
           THEN {Raised(l, d, lk, self, "KeyError")}
           ELSE LET w == SqlDeleteNote(d, l.a.note_id) IN
                {[l |-> [l EXCEPT !.pc = "d_commit", !.w = <<w>>],
                  db |-> FileInTransaction(d, w), lock |-> self]}
      [] l.pc = "d_commit" ->
           {[l |-> Return(l, <<>>), db |-> View(l, d), lock |-> Unlock(lk, self)]}
      [] l.pc = "l_select" ->
           LET rows == SelectNotes(d, l.a.tag, l.a.include_archived, l.a.limit,
                                   l.a.offset) IN
           IF rows = <<>>
           THEN {[l |-> Return(l, <<>>), db |-> d, lock |-> lk]}
           ELSE {[l |-> [l EXCEPT !.pc = "l_fetch", !.rows = rows], db |-> d, lock |-> lk]}
      [] l.pc = "l_fetch" ->
           {[l |-> IF Len(l.rows) = 1 THEN Return(l, Append(l.ret, api))
                   ELSE [l EXCEPT !.rows = Tail(@), !.ret = Append(@, api)],
             db |-> d, lock |-> lk] : api \in note_row_to_api(d, Head(l.rows))}
      [] l.pc = "t_select" ->
           {[l |-> Return(l, ret), db |-> d, lock |-> lk] : ret \in ListTagsRows(d)}
      [] l.pc = "n_validate" ->
           {[l |-> Return(l, normalize_tags(l.a.tags)), db |-> d, lock |-> lk]}
      [] l.pc = "s_strip" ->
           IF strip(l.a.q) = <<>>
           THEN {[l |-> Return(l, <<>>), db |-> d, lock |-> lk]}
           ELSE {[l |-> [l EXCEPT !.pc = "s_select", !.conn = TRUE], db |-> d, lock |-> lk]}
      [] l.pc = "s_select" ->
           LET rows == SearchNotes(d, strip(l.a.q), l.a.tag, l.a.include_archived,
                                   l.a.limit, l.a.offset) IN
           IF rows = <<>>
           THEN {[l |-> Return(l, <<>>), db |-> d, lock |-> lk]}
           ELSE {[l |-> [l EXCEPT !.pc = "l_fetch", !.rows = rows], db |-> d, lock |-> lk]}

(* every statement of a writing call can also fail in the storage engine   *)
(* (I/O error, database is locked)                                         *)
StepOutcomes(l, d, lk, self, t) ==
    (IF Blocked(l, lk, self) THEN {} ELSE Statement(l, d, lk, self, t))
    \cup (IF l.pc \in WritePcs THEN {Raised(l, d, lk, self, "StorageFailure")} ELSE {})

RECURSIVE Run(_, _, _, _, _)
Run(l, d, lk, self, t) ==
    IF l.pc = "done" THEN {[l |-> l, db |-> d, lock |-> lk]}
    ELSE UNION {Run(o.l, o.db, o.lock, self, t) : o \in StepOutcomes(l, d, lk, self, t)}

----------------------------------------------------------------------------
(* Inputs *)

CreateArgs(Titles, Lists) ==
    { [NoArgs EXCEPT !.title = title, !.content = <<"c">>, !.tags = tags] :
        title \in Titles, tags \in Lists }

UpdateArgs(Ids, Titles, Archived, Lists) ==
    { [NoArgs EXCEPT !.note_id = id, !.title = title, !.content = <<"c">>,
                     !.is_archived = arch, !.tags = tags] :
        id \in Ids, title \in Titles, arch \in Archived, tags \in Lists }

DeleteArgs(Ids) == { [NoArgs EXCEPT !.note_id = id] : id \in Ids }

SearchArgs(Queries, Filters, Limits, Offsets) ==
    { [NoArgs EXCEPT !.q = q, !.tag = tag, !.include_archived = inc, !.limit = limit,
                     !.offset = offset] :
        q \in Queries, tag \in Filters, inc \in BOOLEAN, limit \in Limits,
        offset \in Offsets }

ListArgs(Filters, Limits, Offsets) ==
    { [NoArgs EXCEPT !.tag = tag, !.include_archived = inc, !.limit = limit,
                     !.offset = offset] :
        tag \in Filters, inc \in BOOLEAN, limit \in Limits, offset \in Offsets }

(* raw tag lists: duplicates, untrimmed and empty names, names that differ *)
(* in case only, names in letters outside ASCII                            *)
TagLists ==
    { <<>>,
      << <<"b">>, <<"a">>, <<"a">> >>,
      << <<"a">>, <<" ", "A", " ">>, <<" ">>, <<>> >>,
      << <<"U+00D4">>, <<"U+00E9">> >> }

----------------------------------------------------------------------------
(* One call at a time; each action is one whole call.  observed says       *)
(* whether the caller's view of the call (arguments, result or exception)  *)
(* is kept in last.                                                        *)

Init ==
    /\ db = EmptyDb
    /\ now = 1
    /\ last = Idle
    /\ procs = [p \in Clients |-> Idle]
    /\ lock = 0
    /\ committed = {}

Call(op, a, observed) ==
    \E o \in Run(Start(op, a), db, 0, 1, now) :
        /\ db' = o.db
        /\ last' = IF observed THEN o.l ELSE Idle
        /\ UNCHANGED <<now, procs, lock, committed>>

create_note(A, cap, observed) ==
    \E a \in A : db.seq_notes < cap /\ Call("create_note", a, observed)

update_note(A, observed) == \E a \in A : Call("update_note", a, observed)

delete_note(A, observed) == \E a \in A : Call("delete_note", a, observed)

list_notes(A) == \E a \in A : Call("list_notes", a, TRUE)

list_tags == Call("list_tags", NoArgs, TRUE)

search_notes(A) == \E a \in A : Call("search_notes", a, TRUE)

(* CURRENT_TIMESTAMP has a resolution of one second *)
Tick ==
    /\ now < MaxClock
    /\ now' = now + 1
    /\ UNCHANGED <<db, last, procs, lock, committed>>

(* Spec: the writing calls, over the raw tag lists, all within one second *)
Next ==
    \/ create_note(CreateArgs({<<"x">>}, TagLists), MaxNotes, TRUE)
    \/ update_note(UpdateArgs(1..MaxNotes, {<<"x">>}, {FALSE}, TagLists), TRUE)
    \/ delete_note(DeleteArgs(1..MaxNotes), TRUE)

Spec == Init /\ [][Next]_vars

----------------------------------------------------------------------------
(* SpecList: list_notes over stores of up to MaxListed notes built by the  *)
(* writing calls, and over stores of ten notes created in the same second  *)
(* of which at most two were updated a second later.  The writing calls    *)
(* are not observed, and a behaviour ends with the one list_notes call it  *)
(* observes, so last always is a list of the present store.                *)

ListLists == { <<>>, << <<"a">>, <<"A">> >> }

TenNotes(U) ==
    [EmptyDb EXCEPT
        !.notes = [i \in 1..10 |->
                     [id |-> i, title |-> <<"x">>, content |-> <<"c">>,
                      is_archived |-> 0, created_at |-> 1,
                      updated_at |-> IF i \in U THEN 2 ELSE 1]],
        !.seq_notes = 10]

InitList ==
    /\ \/ db = EmptyDb /\ now = 1
       \/ \E U \in {S \in SUBSET (1..10) : Cardinality(S) <= 2} :
             db = TenNotes(U) /\ now = 2
    /\ last = Idle
    /\ procs = [p \in Clients |-> Idle]
    /\ lock = 0
    /\ committed = {}

NextList ==
    \/ last = Idle /\ create_note(CreateArgs({<<"x">>}, ListLists), MaxListed, FALSE)
    \/ last = Idle /\ db.seq_notes <= MaxListed
         /\ update_note(UpdateArgs(1..MaxListed, {<<"x">>}, BOOLEAN, ListLists), FALSE)
    \/ last = Idle /\ db.seq_notes <= MaxListed
         /\ delete_note(DeleteArgs(1..MaxListed), FALSE)
    \/ last = Idle
         /\ list_notes(ListArgs({<<>>, <<" ", "a">>}, {1, MaxLimit}, 0..MaxOffset))
    \/ last = Idle /\ Tick

SpecList == InitList /\ [][NextList]_vars

----------------------------------------------------------------------------
(* SpecUpdate: update_note over stores of up to MaxListed notes built by   *)
(* the writing calls over MaxClock seconds.  The calls that build the      *)
(* store are not observed, and a behaviour ends with the one update_note   *)
(* it observes.                                                            *)

(* an update_note whose title and content differ from the stored ones *)
ObservedUpdates ==
    { [a EXCEPT !.content = <<"y">>] :
        a \in UpdateArgs(1..MaxListed, {<<"y">>}, BOOLEAN, ListLists) }

NextUpdate ==
    \/ last = Idle /\ create_note(CreateArgs({<<"x">>}, ListLists), MaxListed, FALSE)
    \/ last = Idle
         /\ update_note(UpdateArgs(1..MaxListed, {<<"x">>}, BOOLEAN, ListLists), FALSE)
    \/ last = Idle /\ delete_note(DeleteArgs(1..MaxListed), FALSE)
    \/ last = Idle /\ update_note(ObservedUpdates, TRUE)
    \/ last = Idle /\ Tick

SpecUpdate == Init /\ [][NextUpdate]_vars

----------------------------------------------------------------------------
(* SpecRead: the reading calls over stores of up to MaxNotes notes built   *)
(* by the writing calls within one second.  The writing calls are not      *)
(* observed, and a behaviour ends with the one reading call it observes.   *)

(* limit: int = 200 *)
DefaultLimit == 200

ReadLists == { <<>>, << <<"a">> >>, << <<"U+00D4">>, <<"U+00E9">> >> }

(* tag filters: none, an untrimmed name in the other case, a name in the   *)
(* other case of a letter outside ASCII, a name no tag has                 *)
ReadFilters == { <<>>, <<" ", "A">>, <<"U+00C9">>, <<"b">> }

(* queries that are empty after trimming *)
EmptyQueries == { <<>>, <<" ">> }

(* queries: untrimmed and in the other case, in no note, the LIKE          *)
(* wildcards                                                               *)
Queries == { <<" ", "X">>, <<"y">>, <<"%">>, <<"_">> }

NextRead ==
    \/ last = Idle /\ create_note(CreateArgs({<<"x">>}, ReadLists), MaxNotes, FALSE)
    \/ last = Idle
         /\ update_note(UpdateArgs(1..MaxNotes, {<<"y">>}, BOOLEAN, ReadLists), FALSE)
    \/ last = Idle /\ delete_note(DeleteArgs(1..MaxNotes), FALSE)
    \/ last = Idle /\ list_notes(ListArgs(ReadFilters, {DefaultLimit}, {0}))
    \/ last = Idle /\ list_tags
    \/ last = Idle
         /\ search_notes(SearchArgs(EmptyQueries, {<<>>, <<" ", "A">>},
                                    {1, DefaultLimit}, {0, 1}))
    \/ last = Idle
         /\ search_notes(SearchArgs(Queries, {<<>>, <<" ", "A">>}, {DefaultLimit}, {0}))

SpecRead == Init /\ [][NextRead]_vars

----------------------------------------------------------------------------
(* SpecTouch: a store of up to MaxListed notes built by the writing calls  *)
(* over MaxClock seconds, then one observed update_note and, with no       *)
(* other call in between, one observed list_notes(include_archived=True,   *)
(* offset=0).  Time may pass between the two.                              *)

TouchLists == {<<>>}

(* list_notes(include_archived=True, offset=0) with limit 1 or the default *)
TouchListArgs ==
    { a \in ListArgs({<<>>}, {1, DefaultLimit}, {0}) : a.include_archived }

NextTouch ==
    \/ last = Idle /\ create_note(CreateArgs({<<"x">>}, TouchLists), MaxListed, FALSE)
    \/ last = Idle
         /\ update_note(UpdateArgs(1..MaxListed, {<<"x">>}, BOOLEAN, TouchLists), FALSE)
    \/ last = Idle /\ delete_note(DeleteArgs(1..MaxListed), FALSE)
    \/ last = Idle
         /\ update_note(UpdateArgs(1..MaxListed, {<<"y">>}, BOOLEAN, TouchLists), TRUE)
    \/ last.op = "update_note" /\ last.exc = "none" /\ list_notes(TouchListArgs)
    \/ last.op # "list_notes" /\ Tick

SpecTouch == Init /\ [][NextTouch]_vars

----------------------------------------------------------------------------
(* SpecNorm: the validator applied to every list of up to MaxRaw raw names, *)
(* and applied again to its own result.                                     *)

MaxRaw == 3

RawNames ==
    { <<>>, <<" ">>, <<"a">>, <<"A">>, <<" ", "A", " ">>, <<"b">>,
      <<"U+00C9">>, <<"U+00E9">> }

RECURSIVE Lists(_, _)
Lists(S, n) ==
    IF n = 0 THEN {<<>>}
    ELSE Lists(S, n - 1) \cup {Append(l, x) : l \in Lists(S, n - 1), x \in S}

InitNorm ==
    /\ db = EmptyDb
    /\ now = 1
    /\ \E v \in Lists(RawNames, MaxRaw) :
          last = Start("normalize_tags", [NoArgs EXCEPT !.tags = v])
    /\ procs = [p \in Clients |-> Idle]
    /\ lock = 0
    /\ committed = {}

(* NoteBase.normalize_tags on the tags of the request *)
validate_tags ==
    /\ last.pc = "n_validate"
    /\ \E o \in Run(last, db, lock, 1, now) : last' = o.l
    /\ UNCHANGED <<db, now, procs, lock, committed>>

(* the validated list is sent in a request again *)
revalidate_tags ==
    /\ last.pc = "done"
    /\ last.ret # last.a.tags
    /\ last' = Start("normalize_tags", [NoArgs EXCEPT !.tags = last.ret])
    /\ UNCHANGED <<db, now, procs, lock, committed>>

NextNorm == validate_tags \/ revalidate_tags

SpecNorm == InitNorm /\ [][NextNorm]_vars

----------------------------------------------------------------------------
(* SpecConc: the clients call concurrently; each step is one statement (or *)
(* one helper) of a call, on the call's own connection.                    *)

ConcLists == { << <<"a">> >>, << <<"b">>, <<"a">>, <<"a">> >> }

Begin(p, op, A) ==
    /\ procs[p].pc = "idle"
    /\ \E a \in A : procs' = [procs EXCEPT ![p] = Start(op, a)]
    /\ UNCHANGED <<db, now, last, lock, committed>>

begin_create_note(p) ==
    db.seq_notes < MaxNotes /\ Begin(p, "create_note", CreateArgs({<<"x">>}, ConcLists))

begin_update_note(p) ==
    Begin(p, "update_note", UpdateArgs(1..MaxNotes, {<<"x">>}, {FALSE}, ConcLists))

begin_delete_note(p) == Begin(p, "delete_note", DeleteArgs(1..MaxNotes))

begin_list_notes(p) ==
    Begin(p, "list_notes", ListArgs({<<>>}, {MaxLimit}, {0}))

Step(p) ==
    /\ procs[p].pc \notin {"idle", "done"}
    /\ \E o \in StepOutcomes(procs[p], db, lock, p, now) :
          /\ procs' = [procs EXCEPT ![p] = o.l]
          /\ db' = o.db
          /\ lock' = o.lock
    /\ UNCHANGED <<now, last>>

(* the caller has its result or exception *)
Respond(p) ==
    /\ procs[p].pc = "done"
    /\ procs' = [procs EXCEPT ![p] = Idle]
    /\ UNCHANGED <<db, now, last, lock, committed>>

NextConc ==
    \E p \in Clients :
        \/ begin_create_note(p)
        \/ begin_update_note(p)
        \/ begin_delete_note(p)
        \/ begin_list_notes(p)
        \/ Step(p) /\ UNCHANGED committed
        \/ Respond(p)

SpecConc == Init /\ [][NextConc]_vars

----------------------------------------------------------------------------
(* SpecSnap: client 1 reads (list_notes, search_notes) while client 2      *)
(* writes; each step is one statement of a call, as in SpecConc.  Every    *)
(* state the database file takes is recorded in committed.                 *)

Reader == 1
Writer == 2

begin_search_notes(p) ==
    Begin(p, "search_notes", SearchArgs({<<"c">>}, {<<>>}, {MaxLimit}, {0}))

StepSnap(p) == Step(p) /\ committed' = committed \cup {db, db'}

NextSnap ==
    \/ db.seq_notes < MaxNotes
         /\ Begin(Writer, "create_note", CreateArgs({<<"x">>}, {<< <<"a">> >>}))
    \/ Begin(Writer, "update_note",
             UpdateArgs(1..MaxNotes, {<<"y">>}, {FALSE}, {<< <<"b">> >>}))
    \/ begin_delete_note(Writer)
    \/ begin_list_notes(Reader)
    \/ begin_search_notes(Reader)
    \/ \E p \in Clients : StepSnap(p)
    \/ \E p \in Clients : Respond(p)

SpecSnap == Init /\ [][NextSnap]_vars

----------------------------------------------------------------------------
(* Properties of the writing calls (Spec) *)

(* a step that is a call: every action but Tick leaves now alone           *)
IsCall == now' = now

Names(tags) == [i \in DOMAIN tags |-> tags[i].name]

(* the names a note is associated with in the tables *)
NoteTagNames(d, note_id) ==
    { d.tags[i].name : i \in { i \in DOMAIN d.tags :
                                 BagIn(<<note_id, d.tags[i].id>>, d.note_tags) } }

(* the trimmed, non-empty names of a raw tag list *)
TrimmedNames(L) == { strip(L[i]) : i \in DOMAIN L } \ { <<>> }

(* note_count of tag_id in a result of list_tags *)
CountIn(rows, tag_id) ==
    LET i == CHOOSE i \in DOMAIN rows : rows[i].id = tag_id IN rows[i].note_count

(* C1: the tags table never holds two tags whose names are equal when      *)
(* compared case-insensitively.                                            *)
C1_TagNamesUniqueIgnoringCase ==
    \A i, j \in DOMAIN db.tags :
        i # j => lower(db.tags[i].name) # lower(db.tags[j].name)

(* C2: whenever create_note, update_note or delete_note ends by raising,   *)
(* the persisted notes, tags and associations are those from before the    *)
(* call.                                                                   *)
C2_FailedCallLeavesStoreUnchanged ==
    [][(IsCall /\ last'.exc # "none") => db' = db]_vars

(* C5: after create_note or update_note succeeds with tag list L, the note *)
(* read back carries exactly the trimmed non-empty names of L, each once,  *)
(* in ascending case-insensitive order, and the note is associated with    *)
(* no other tag.                                                           *)
C5_TagsFullyReplaced ==
    (last.op \in {"create_note", "update_note"} /\ last.exc = "none") =>
        LET api == last.ret[1]
            names == Names(api.tags)
        IN /\ Range(names) = TrimmedNames(last.a.tags)
           /\ \A i, j \in DOMAIN names : i < j =>
                 /\ names[i] # names[j]
                 /\ ~KeyLess(LowerKey(names[j]), LowerKey(names[i]))
           /\ NoteTagNames(db, api.id) = TrimmedNames(last.a.tags)

(* C6: update_note with an id for which no note exists fails with KeyError *)
(* (unless the storage engine itself fails first) and creates no note,     *)
(* tag or association.                                                     *)
C6_UpdateMissingNote ==
    [][(IsCall /\ last'.op = "update_note" /\ ~NoteExists(db, last'.a.note_id)) =>
          /\ last'.exc \in {"KeyError", "StorageFailure"}
          /\ db' = db]_vars

C6_Witness ==
    /\ last.op = "update_note"
    /\ last.exc = "KeyError"
    /\ TrimmedNames(last.a.tags) # {}
    /\ db.notes # <<>>
    /\ ~NoteExists(db, last.a.note_id)

(* C7: after delete_note(id) succeeds the note row and every note_tags row *)
(* of that note are gone, no tag row is removed, and list_tags reports for *)
(* each tag a count lowered by one if the deleted note carried it.         *)
C7_DeleteCascades ==
    [][(IsCall /\ last'.op = "delete_note" /\ last'.exc = "none") =>
          LET id == last'.a.note_id IN
          /\ ~NoteExists(db', id)
          /\ \A r \in DOMAIN db'.note_tags : r[1] # id
          /\ db'.tags = db.tags
          /\ \A before \in ListTagsRows(db), after \in ListTagsRows(db') :
                \A i \in DOMAIN db.tags :
                   LET t == db.tags[i].id IN
                   CountIn(after, t) =
                      CountIn(before, t) - CopiesIn(<<id, t>>, db.note_tags)]_vars

C7_Witness ==
    /\ last.op = "delete_note"
    /\ last.exc = "none"
    /\ db.seq_notes = 2
    /\ Len(db.notes) = 1
    /\ \E rows \in ListTagsRows(db) :
          /\ \E i \in DOMAIN rows : rows[i].note_count = 0
          /\ \E i \in DOMAIN rows : rows[i].note_count = 1

(* C8: delete_note on an existing id succeeds and removes the note, so the *)
(* same call repeated fails with KeyError; on an id that names no note it  *)
(* fails with KeyError and changes nothing (a failure of the storage       *)
(* engine aside).                                                          *)
C8_DeleteTwice ==
    [][(IsCall /\ last'.op = "delete_note" /\ last'.exc # "StorageFailure") =>
          LET id == last'.a.note_id IN
          /\ NoteExists(db, id) => (last'.exc = "none" /\ ~NoteExists(db', id))
          /\ ~NoteExists(db, id) => (last'.exc = "KeyError" /\ db' = db)
          /\ (last.op = "delete_note" /\ last.exc = "none" /\ last.a.note_id = id)
                => last'.exc = "KeyError"]_vars

C8_Witness ==
    /\ last.op = "delete_note"
    /\ last.exc = "KeyError"
    /\ last.a.note_id <= db.seq_notes

(* C9: no call removes a row of the tags table; updating a note to a tag   *)
(* list without names removes all its associations and leaves every tag.   *)
C9_TagsOnlyGrow ==
    [][/\ \A i \in DOMAIN db.tags : i \in DOMAIN db'.tags /\ db'.tags[i] = db.tags[i]
       /\ (IsCall /\ last'.op = "update_note" /\ last'.exc = "none"
              /\ TrimmedNames(last'.a.tags) = {}) =>
             /\ \A r \in DOMAIN db'.note_tags : r[1] # last'.a.note_id
             /\ db'.tags = db.tags]_vars

C9_Witness ==
    /\ last.op = "update_note"
    /\ last.exc = "none"
    /\ last.a.tags = <<>>
    /\ Len(db.tags) = 3
    /\ db.note_tags = EmptyBag

----------------------------------------------------------------------------
(* Properties of list_notes (SpecList) *)

(* the notes rows that pass the filters of a list_notes call *)
PassingFilters(d, a) ==
    { n \in Range(d.notes) :
        /\ a.include_archived \/ n.is_archived = 0
        /\ a.tag = <<>> \/
              \E name \in NoteTagNames(d, n.id) : lower(name) = lower(strip(a.tag)) }

(* n comes before m: updated-at descending, ties broken by id descending *)
ListedBefore(n, m) ==
    \/ n.updated_at > m.updated_at
    \/ n.updated_at = m.updated_at /\ n.id > m.id

(* C10: list_notes(limit, offset) returns exactly the notes at positions   *)
(* offset+1 .. offset+limit of the notes passing the filters, sorted by    *)
(* updated-at descending, then id descending (fewer if there are fewer),   *)
(* each note once; with 10 notes, limit 3 and offset 3 they are the 4th to *)
(* the 6th.                                                                *)
C10_PageOfOrderedNotes ==
    (last.op = "list_notes" /\ last.exc = "none") =>
        LET F == PassingFilters(db, last.a)
            rest == Cardinality(F) - last.a.offset
        IN /\ Len(last.ret) =
                 IF rest <= 0 THEN 0 ELSE IF rest < last.a.limit THEN rest ELSE last.a.limit
           /\ \A i \in DOMAIN last.ret :
                 \E n \in F :
                    /\ n.id = last.ret[i].id
                    /\ n.title = last.ret[i].title
                    /\ n.updated_at = last.ret[i].updated_at
                    /\ Cardinality({m \in F : ListedBefore(m, n)}) = last.a.offset + i - 1

C10_Witness ==
    /\ last.op = "list_notes"
    /\ Len(db.notes) = 10
    /\ db.notes[2].updated_at = 2
    /\ db.notes[8].updated_at = 2
    /\ last.a.limit = 3
    /\ last.a.offset = 3
    /\ [i \in DOMAIN last.ret |-> last.ret[i].id] = <<9, 7, 6>>

----------------------------------------------------------------------------
(* Properties of concurrent calls (SpecConc) *)

(* client p commits its create_note or update_note in this step *)
CommitsNote(p) == procs[p].pc = "select_commit" /\ procs'[p].pc = "to_api"

(* client p commits its delete_note in this step *)
CommitsDelete(p) ==
    procs[p].pc = "d_commit" /\ procs'[p].pc = "done" /\ procs'[p].exc = "none"

(* client p, listing notes, reads the tags of a note in this step *)
FetchesTags(p) == procs[p].pc = "l_fetch" /\ procs'[p] # procs[p]

(* C3: the tag list that list_notes returns for a note is the note's whole *)
(* committed tag set: the stored tag set of a note changes only in the     *)
(* commit of a create_note or update_note, in one step from the set before *)
(* the call to the complete set of the call, and a reader gets the stored  *)
(* set as it is at its read, never what an open transaction has written.   *)
C3_ReadersSeeWholeTagSets ==
    [][/\ db' # db => \E q \in Clients : CommitsNote(q) \/ CommitsDelete(q)
       /\ \A q \in Clients : CommitsNote(q) =>
             /\ NoteExists(db', procs[q].note_id) =>
                   NoteTagNames(db', procs[q].note_id) = TrimmedNames(procs[q].a.tags)
             /\ \A n \in NoteIds(db') \ {procs[q].note_id} :
                   NoteTagNames(db', n) = NoteTagNames(db, n)
       /\ \A p \in Clients : FetchesTags(p) =>
             LET id == Head(procs[p].rows).id
                 api == procs'[p].ret[Len(procs'[p].ret)]
             IN /\ api.id = id
                /\ Range(Names(api.tags)) = NoteTagNames(db, id)
                /\ Len(api.tags) = Cardinality(NoteTagNames(db, id))]_vars

(* a reader is about to read the tags of a note whose tags an open         *)
(* transaction has deleted and not yet written again                       *)
C3_Witness ==
    \E p, q \in Clients :
        /\ procs[p].pc = "l_fetch"
        /\ procs[q].op = "update_note"
        /\ procs[q].pc = "set_insert"
        /\ Head(procs[p].rows).id = procs[q].note_id
        /\ NoteTagNames(procs[q].w[1], procs[q].note_id) = {}
        /\ NoteTagNames(db, procs[q].note_id) = {<<"a">>, <<"b">>}
        /\ TrimmedNames(procs[q].a.tags) = {<<"a">>}

(* C4: every note_tags row references a note that exists and a tag that    *)
(* exists, and each (note_id, tag_id) pair appears at most once.           *)
C4_AssociationsReferToRows ==
    \A r \in DOMAIN db.note_tags :
        /\ r[1] \in NoteIds(db)
        /\ r[2] \in TagIds(db)
        /\ db.note_tags[r] = 1

(* an update_note whose note was deleted under it has been stopped by the  *)
(* foreign key, and associations of another note are stored                *)
C4_Witness ==
    /\ db.note_tags # EmptyBag
    /\ Len(db.notes) < db.seq_notes
    /\ \E p \in Clients :
          /\ procs[p].pc = "done"
          /\ procs[p].op = "update_note"
          /\ procs[p].exc = "IntegrityError"

----------------------------------------------------------------------------
(* Properties of the reading calls (SpecRead) *)

(* the call asked for a page that holds every note *)
WholePage(a) == a.offset = 0 /\ a.limit >= Len(db.notes)

Ids(notes) == {notes[i].id : i \in DOMAIN notes}

(* q occurs in s, letters of ASCII compared in either case as the storage  *)
(* engine's default string match does                                      *)
Contains(s, q) ==
    \E i \in 1..(Len(s) - Len(q) + 1) :
        \A j \in 1..Len(q) : AsciiLower(s[i + j - 1]) = AsciiLower(q[j])

(* the notes associated with tag_id *)
NotesOfTag(d, tag_id) == {n \in NoteIds(d) : BagIn(<<n, tag_id>>, d.note_tags)}

(* C11: with a page that holds everything, list_notes returns a note if    *)
(* and only if it passes the archived filter and, when a tag is given, is  *)
(* associated with a tag whose name equals the given name                  *)
(* case-insensitively; a name matching no tag gives the empty list, and    *)
(* without include_archived no archived note is returned.                  *)
C11_ListNotesFilters ==
    (last.op = "list_notes" /\ last.exc = "none" /\ WholePage(last.a)) =>
        /\ Ids(last.ret) = {n.id : n \in PassingFilters(db, last.a)}
        /\ ~last.a.include_archived =>
              \A i \in DOMAIN last.ret : ~last.ret[i].is_archived
        /\ (/\ last.a.tag # <<>>
            /\ \A i \in DOMAIN db.tags :
                  lower(db.tags[i].name) # lower(strip(last.a.tag)))
              => last.ret = <<>>

(* C12: list_tags returns every row of the tags table exactly once, each   *)
(* with note_count the number of distinct existing notes associated with   *)
(* it, ordered by name ascending case-insensitively.                       *)
C12_ListTagsRows ==
    (last.op = "list_tags" /\ last.exc = "none") =>
        LET rows == last.ret IN
        /\ Len(rows) = Len(db.tags)
        /\ \A i \in DOMAIN db.tags :
              \E j \in DOMAIN rows :
                 /\ rows[j].id = db.tags[i].id
                 /\ rows[j].name = db.tags[i].name
                 /\ rows[j].note_count = Cardinality(NotesOfTag(db, db.tags[i].id))
        /\ \A i, j \in DOMAIN rows : i < j =>
              ~KeyLess(LowerKey(rows[j].name), LowerKey(rows[i].name))

(* C13: for a query q that is not empty after trimming, search_notes with  *)
(* a page that holds everything returns exactly the notes passing the      *)
(* archived and tag filters whose title or content contains the trimmed q, *)
(* also for q made of '%' or '_'.                                          *)
C13_SearchIsSubstringMatch ==
    (/\ last.op = "search_notes" /\ last.exc = "none"
     /\ strip(last.a.q) # <<>> /\ WholePage(last.a)) =>
        Ids(last.ret) =
           {n.id : n \in {m \in PassingFilters(db, last.a) :
                            \/ Contains(m.title, strip(last.a.q))
                            \/ Contains(m.content, strip(last.a.q))}}

(* C14: search_notes with a query of no characters or of spaces only       *)
(* returns the empty list whatever the store, tag, include_archived, limit *)
(* and offset are, without opening a connection to the store and without   *)
(* changing it.                                                            *)
C14_EmptyQueryReturnsNothing ==
    [][(/\ IsCall /\ last'.op = "search_notes"
        /\ \A i \in DOMAIN last'.a.q : last'.a.q[i] = " ") =>
          /\ last'.exc = "none"
          /\ last'.ret = <<>>
          /\ ~last'.conn
          /\ db' = db]_vars

C14_Witness ==
    /\ last.op = "search_notes"
    /\ last.a.q = <<" ">>
    /\ last.a.tag = <<>>
    /\ last.a.include_archived
    /\ last.a.limit = DefaultLimit
    /\ last.a.offset = 0
    /\ Len(db.notes) = MaxNotes
    /\ last.ret = <<>>

----------------------------------------------------------------------------
(* Properties of the validator (SpecNorm) *)

(* the positions of v that hold the first occurrence of a name, compared   *)
(* trimmed and case-insensitively                                          *)
FirstSeen(v) ==
    { i \in DOMAIN v :
        /\ strip(v[i]) # <<>>
        /\ \A j \in 1..(i - 1) : lower(strip(v[j])) # lower(strip(v[i])) }

(* C15: the list normalize_tags returns has no empty or untrimmed name and *)
(* no two names equal case-insensitively, holds the first occurrence of    *)
(* each name with its casing in the order first seen, and is returned      *)
(* unchanged when normalized again.                                        *)
C15_NormalizeIdempotent ==
    (last.op = "normalize_tags" /\ last.pc = "done") =>
        LET v == last.a.tags
            out == last.ret
        IN /\ \A i \in DOMAIN out : out[i] # <<>> /\ strip(out[i]) = out[i]
           /\ \A i, j \in DOMAIN out : i # j => lower(out[i]) # lower(out[j])
           /\ Len(out) = Cardinality(FirstSeen(v))
           /\ \A i \in DOMAIN out :
                 \E k \in FirstSeen(v) :
                    /\ out[i] = strip(v[k])
                    /\ Cardinality({m \in FirstSeen(v) : m < k}) = i - 1
           /\ normalize_tags(out) = out

C15_Witness ==
    /\ last.op = "normalize_tags"
    /\ last.pc = "done"
    /\ last.a.tags = << <<" ", "A", " ">>, <<"a">>, <<"b">> >>
    /\ last.ret = << <<"A">>, <<"b">> >>

----------------------------------------------------------------------------
(* The store against the validator (Spec) *)

(* C16: for every raw tag list L passed to create_note or update_note, the *)
(* set of tag names the store associates with the note is the set of names *)
(* normalize_tags(L) returns.                                              *)
C16_StoreNormalizesAsValidator ==
    (last.op \in {"create_note", "update_note"} /\ last.exc = "none") =>
        NoteTagNames(db, last.ret[1].id) = Range(normalize_tags(last.a.tags))

----------------------------------------------------------------------------
(* More properties of concurrent calls (SpecConc) *)

(* the rows of the tags table with this name *)
TagRows(d, name) == {i \in DOMAIN d.tags : d.tags[i].name = name}

(* C17: create_note and update_note calls that name the same tag while it  *)
(* does not exist yet do not fail on the duplicate insert (a call fails on *)
(* a constraint only when its note has been deleted), leave exactly one    *)
(* tag row with that name, which stays, and each commits its note          *)
(* associated with that row.                                               *)
C17_ConcurrentTagInsert ==
    [][/\ \A i \in DOMAIN db.tags : i \in DOMAIN db'.tags /\ db'.tags[i] = db.tags[i]
       /\ \A i, j \in DOMAIN db'.tags :
             i # j => db'.tags[i].name # db'.tags[j].name
       /\ \A q \in Clients :
             /\ (procs'[q].exc = "IntegrityError" /\ procs[q].exc = "none") =>
                   ~NoteExists(db, procs[q].note_id)
             /\ (CommitsNote(q) /\ NoteExists(db', procs[q].note_id)) =>
                   \A name \in TrimmedNames(procs[q].a.tags) :
                      /\ Cardinality(TagRows(db', name)) = 1
                      /\ \A i \in TagRows(db', name) :
                            BagIn(<<procs[q].note_id, db'.tags[i].id>>, db'.note_tags)]_vars

(* one call has inserted tag a in its open transaction while another call  *)
(* naming a waits for the write lock, and no tag a is stored yet           *)
C17_Witness ==
    \E p, q \in Clients :
        /\ p # q
        /\ procs[p].op = "create_note" /\ procs[p].pc = "select_commit"
        /\ procs[q].op = "create_note" /\ procs[q].pc = "c_insert"
        /\ <<"a">> \in TrimmedNames(procs[p].a.tags) \cap TrimmedNames(procs[q].a.tags)
        /\ TagRows(db, <<"a">>) = {}
        /\ TagRows(procs[p].w[1], <<"a">>) # {}
        /\ lock = p


(* client p returns the note of its create_note or update_note in this     *)
(* step                                                                    *)
ReturnsNote(p) ==
    procs[p].pc = "to_api" /\ procs'[p].pc = "done" /\ procs'[p].exc = "none"

(* C18: the note a successful create_note or update_note returns carries   *)
(* the title, content, archived flag and tag set the call committed, also  *)
(* when other calls on the same note or its tags run concurrently.         *)
C18_ReturnsWhatItCommitted ==
    [][\A p \in Clients : ReturnsNote(p) =>
          LET api == procs'[p].ret[1]
              a == procs[p].a
          IN /\ api.id = procs[p].note_id
             /\ api.title = a.title
             /\ api.content = a.content
             /\ api.is_archived = a.is_archived
             /\ Range(Names(api.tags)) = TrimmedNames(a.tags)]_vars


(* client p ends its update_note in this step *)
EndsUpdate(p) ==
    procs[p].op = "update_note" /\ procs[p].pc # "done" /\ procs'[p].pc = "done"

(* C20: update_note(id) running concurrently with delete_note(id) either   *)
(* returns the updated note, its write committed while the note existed,   *)
(* or fails with KeyError (a failure of the storage engine aside): it      *)
(* fails with no other error and leaves no association of a deleted note.  *)
C20_UpdateRacingDelete ==
    [][\A p \in Clients :
          /\ EndsUpdate(p) => procs'[p].exc \in {"none", "KeyError", "StorageFailure"}
          /\ (procs[p].op = "update_note" /\ CommitsNote(p)) =>
                NoteExists(db', procs[p].note_id)
          /\ \A r \in DOMAIN db'.note_tags : r[1] \in NoteIds(db')]_vars

----------------------------------------------------------------------------
(* The frame of update_note (SpecUpdate) *)

(* C19: a successful update_note(id, ...) overwrites title, content and    *)
(* is_archived of note id with the supplied values and sets its updated-at *)
(* to the current time; it leaves that note's id and created-at, every     *)
(* field of every other note and every other note's associations as they   *)
(* were.                                                                   *)
C19_UpdateFrame ==
    [][(IsCall /\ last'.op = "update_note" /\ last'.exc = "none") =>
          LET a == last'.a
              old == SelectNote(db, a.note_id)
              new == SelectNote(db', a.note_id)
          IN /\ Len(old) = 1 /\ Len(new) = 1
             /\ new[1].title = a.title
             /\ new[1].content = a.content
             /\ new[1].is_archived = (IF a.is_archived THEN 1 ELSE 0)
             /\ new[1].updated_at = now
             /\ new[1].id = old[1].id
             /\ new[1].created_at = old[1].created_at
             /\ Len(db'.notes) = Len(db.notes)
             /\ \A i \in DOMAIN db.notes :
                   db.notes[i].id # a.note_id => db'.notes[i] = db.notes[i]
             /\ \A r \in DOMAIN db.note_tags \cup DOMAIN db'.note_tags :
                   r[1] # a.note_id =>
                      CopiesIn(r, db'.note_tags) = CopiesIn(r, db.note_tags)]_vars

C19_Witness ==
    /\ last.op = "update_note"
    /\ last.exc = "none"
    /\ last.a.is_archived
    /\ last.a.tags = <<>>
    /\ \E n, m \in Range(db.notes) :
          /\ n.id = last.a.note_id
          /\ n.created_at < n.updated_at
          /\ n.updated_at = now
          /\ n.title = <<"y">>
          /\ n.content = <<"y">>
          /\ m.id # n.id
          /\ m.title = <<"x">>
          /\ m.is_archived = 0
          /\ NoteTagNames(db, m.id) = {<<"a">>, <<"A">>}

----------------------------------------------------------------------------
(* a list_notes that follows a successful update_note with no call in      *)
(* between                                                                 *)
ListsAfterUpdate ==
    /\ last.op = "update_note"
    /\ last.exc = "none"
    /\ last'.op = "list_notes"
    /\ last'.exc = "none"

(* the notes of the store that a same-second tie puts before note id: a    *)
(* larger id and the same updated-at                                       *)
TiedAhead(d, id) ==
    { m \in Range(d.notes) :
        \E n \in Range(d.notes) :
            n.id = id /\ m.updated_at = n.updated_at /\ m.id > n.id }

(* C21 as stated: immediately after a successful update_note(id, ...),     *)
(* list_notes(include_archived=true, offset=0) returns note id as its      *)
(* first element, whatever other notes exist and however closely in time   *)
(* they were created or updated.                                           *)
C21_TouchedNoteListedFirst ==
    [][ListsAfterUpdate =>
          /\ Len(last'.ret) >= 1
          /\ last'.ret[1].id = last.a.note_id]_vars

(* C21, amended: immediately after a successful update_note(id, ...),      *)
(* list_notes(include_archived=true, offset=0) returns note id ahead of    *)
(* every other note except the notes with a larger id that were created    *)
(* or updated within the same second as that update; note id is the first  *)
(* element when there is no such note.                                     *)
C21_TouchedNoteListedFirstButTies ==
    [][ListsAfterUpdate =>
          LET id == last.a.note_id
              ret == last'.ret
              ahead == { m.id : m \in TiedAhead(db, id) }
          IN /\ Len(ret) >= 1
             /\ ret[1].id \in {id} \cup ahead
             /\ ahead = {} => ret[1].id = id
             /\ \A i \in DOMAIN ret :
                   ret[i].id = id => \A j \in 1..(i - 1) : ret[j].id \in ahead]_vars

(* the updated note has the smaller id, the other note was written in an   *)
(* earlier second, and the updated note is listed first                    *)
C21_Witness ==
    /\ last.op = "list_notes"
    /\ last.exc = "none"
    /\ Len(last.ret) = 2
    /\ last.ret[1].id < last.ret[2].id
    /\ last.ret[1].updated_at > last.ret[2].updated_at
    /\ last.ret[1].title = <<"y">>

----------------------------------------------------------------------------
(* client p ends a list_notes or search_notes with a result in this step *)
EndsRead(p) ==
    /\ procs[p].op \in {"list_notes", "search_notes"}
    /\ procs[p].pc # "done"
    /\ procs'[p].pc = "done"
    /\ procs'[p].exc = "none"

(* the returned note api has the title, content, archived flag and tag     *)
(* list that note has in the store state d                                 *)
TakenFrom(api, d) ==
    \E n \in Range(d.notes) :
        /\ n.id = api.id
        /\ \E s \in note_row_to_api(d, n) :
              /\ s.title = api.title
              /\ s.content = api.content
              /\ s.is_archived = api.is_archived
              /\ s.tags = api.tags

(* C22: every result of list_notes or search_notes is a snapshot read:     *)
(* there is a single committed store state such that each returned note's  *)
(* title, content, archived flag and tag list are all taken from that one  *)
(* state, even when create_note, update_note or delete_note commit while   *)
(* the read is in progress.                                                *)
C22_ReadsAreSnapshots ==
    [][\A p \in Clients : EndsRead(p) =>
          \E d \in committed' :
              \A i \in DOMAIN procs'[p].ret : TakenFrom(procs'[p].ret[i], d)]_vars

====
